---- MODULE Spec2Model ----
(***************************************************************************)
(* Model of the e-book reader backend: the format parsers, the parser      *)
(* dispatch done by every command handler, the in-memory DocumentCache,    *)
(* the SQLite library table and the SQLite chapter cache.                  *)
(*                                                                         *)
(* Strings are sequences of one-character strings, so that formatting,     *)
(* lower-casing, tag stripping and substring search are computed as the    *)
(* code computes them.  All characters used are ASCII, so a sequence's     *)
(* length is the byte length Rust's String::len reports.                   *)
(***************************************************************************)
EXTENDS Integers, Sequences, FiniteSets, TLC

VARIABLES
    db,          \* the SQLite database: the tables documents and chapters
    cache,       \* DocumentCache.documents: document id -> Document
    req,         \* the handler tasks: where each stands and what it holds
    next_uuid,   \* the number of the next Uuid::new_v4()
    returned,    \* SpecCache, SpecStore: what the last call made directly returned
    epub,        \* SpecEpub: the EPUB container handed to parse_epub
    doc,         \* SpecEpub: the Document parse_epub returned, or NotParsed
    input,       \* the argument of a function that is run on its own
    output       \* what that function returned, or NotCalled

vars == <<db, cache, req, next_uuid, returned, epub, doc, input, output>>

(***************************************************************************)
(* Bounds of the model.                                                    *)
(***************************************************************************)
MaxSpine == 3            \* longest spine of an enumerated EPUB container
MaxUuids == 2            \* uuids open_document draws in one behaviour
MaxCacheIds == 7         \* ids SpecCache sets, gets and clears
MaxContentLen == 5       \* longest content search_lines is run on
MaxQueryLen == 2         \* longest query search_lines is run with
MaxPages == 2            \* most pages of a text the page estimate is run on
SmallWords == 30         \* the word counts from 0 up to it are all run
MaxMarkupLen == 5        \* longest markup fragment strip_html_tags is run on

(***************************************************************************)
(* String primitives (std::str).                                           *)
(***************************************************************************)
None == -1               \* Option::None of a usize result

IsWhitespace(ch) == ch \in {" ", "\n", "\t", "\r"}

Drop(s, n) == SubSeq(s, n + 1, Len(s))

StartsWith(s, pat) == Len(pat) <= Len(s) /\ SubSeq(s, 1, Len(pat)) = pat

\* str::find: byte offset of the first occurrence of pat in s, or None.
find(s, pat) ==
    LET hits == {i \in 0..(Len(s) - Len(pat)) : StartsWith(Drop(s, i), pat)}
    IN IF hits = {} THEN None ELSE CHOOSE i \in hits : \A j \in hits : i <= j

\* str::split_whitespace: the maximal runs of non-whitespace characters, the
\* k-th from the k-th position that starts a run to the k-th that ends one.
split_whitespace_from(s, positions) ==
    LET Starts(i) == ~IsWhitespace(s[i]) /\ (i = 1 \/ IsWhitespace(s[i - 1]))
        Ends(i) == ~IsWhitespace(s[i]) /\ (i = Len(s) \/ IsWhitespace(s[i + 1]))
        first == SelectSeq(positions, Starts)
        last == SelectSeq(positions, Ends)
    IN [k \in 1..Len(first) |-> SubSeq(s, first[k], last[k])]

split_whitespace(s) == split_whitespace_from(s, [i \in 1..Len(s) |-> i])

\* [&str]::join of words[from..to], halving the range.
RECURSIVE join_range(_, _, _, _)
join_range(words, sep, from, to) ==
    IF from > to THEN <<>>
    ELSE IF from = to THEN words[from]
    ELSE join_range(words, sep, from, (from + to) \div 2)
            \o sep \o join_range(words, sep, (from + to) \div 2 + 1, to)

join(words, sep) == join_range(words, sep, 1, Len(words))

\* str::trim
RECURSIVE trim_start(_)
trim_start(s) == IF s # <<>> /\ IsWhitespace(Head(s)) THEN trim_start(Tail(s)) ELSE s

RECURSIVE trim_end(_)
trim_end(s) ==
    IF s # <<>> /\ IsWhitespace(s[Len(s)]) THEN trim_end(SubSeq(s, 1, Len(s) - 1)) ELSE s

trim(s) == trim_end(trim_start(s))

\* Display of a usize: its decimal digits.
Digit(d) == <<"0", "1", "2", "3", "4", "5", "6", "7", "8", "9">>[d + 1]

RECURSIVE to_string(_)
to_string(n) == IF n < 10 THEN <<Digit(n)>> ELSE to_string(n \div 10) \o <<Digit(n % 10)>>

Max(a, b) == IF a >= b THEN a ELSE b

(***************************************************************************)
(* parsers/epub_parser.rs                                                  *)
(***************************************************************************)
\* The character loop of strip_html_tags: drop '<', '>' and what is inside a
\* tag.  When the loop reaches html[i], in_tag is what the last '<' or '>'
\* before it set (TRUE by '<', FALSE by '>'), or its initial value.
strip_chars(html, in_tag) ==
    LET IsBracket(j) == html[j] = "<" \/ html[j] = ">"
        InTag(i) ==
            \/ \E j \in 1..(i - 1) :
                  html[j] = "<" /\ \A k \in (j + 1)..(i - 1) : ~IsBracket(k)
            \/ in_tag /\ \A j \in 1..(i - 1) : ~IsBracket(j)
        Pushed(i) == ~IsBracket(i) /\ ~InTag(i)
        kept == SelectSeq([i \in 1..Len(html) |-> i], Pushed)
    IN [k \in 1..Len(kept) |-> html[kept[k]]]

\* strip_html_tags without the clean-up of the whitespace.
strip_html_tags_keep_whitespace(html) == strip_chars(html, FALSE)

strip_html_tags(html) == join(split_whitespace(strip_chars(html, FALSE)), <<" ">>)

\* One "if let Some(title_start) = html.find(open)" block of extract_chapter_title.
heading_title(html, open, close) ==
    LET title_start == find(html, open) IN
    IF title_start = None THEN [found |-> FALSE, title |-> <<>>]
    ELSE LET content_start == find(Drop(html, title_start), <<">">>) IN
         IF content_start = None THEN [found |-> FALSE, title |-> <<>>]
         ELSE LET start_pos == title_start + content_start + 1
                  end_pos == find(Drop(html, start_pos), close)
              IN IF end_pos = None THEN [found |-> FALSE, title |-> <<>>]
                 ELSE [found |-> TRUE,
                       title |-> trim(strip_html_tags(
                                     SubSeq(html, start_pos + 1, start_pos + end_pos)))]

\* extract_chapter_title numbering the chapters from 0.
extract_chapter_title_from_zero(html, chapter_number) ==
    LET h1 == heading_title(html, <<"<", "h", "1">>, <<"<", "/", "h", "1", ">">>)
        h2 == heading_title(html, <<"<", "h", "2">>, <<"<", "/", "h", "2", ">">>)
    IN IF h1.found THEN h1.title
       ELSE IF h2.found THEN h2.title
       ELSE <<"C", "h", "a", "p", "t", "e", "r", " ">> \o to_string(chapter_number - 1)

extract_chapter_title(html, chapter_number) ==
    LET h1 == heading_title(html, <<"<", "h", "1">>, <<"<", "/", "h", "1", ">">>)
        h2 == heading_title(html, <<"<", "h", "2">>, <<"<", "/", "h", "2", ">">>)
    IN IF h1.found THEN h1.title
       ELSE IF h2.found THEN h2.title
       ELSE <<"C", "h", "a", "p", "t", "e", "r", " ">> \o to_string(chapter_number)

\* A resource that cannot be resolved (get_resource_str returns None).
NoResource == <<"\\0">>

\* EpubDoc::get_resource_str
get_resource_str(container, idref) == container.resources[idref]

\* EpubDoc::get_current_id: the idref of the spine entry the reader stands on.
\* parse_epub never moves the reader, so it is the first spine entry.
get_current_id(container) ==
    IF container.spine = <<>> THEN NoResource ELSE container.spine[container.current + 1]

\* chapter_id without the index.
chapter_id_without_index(container, idref, index) ==
    IF get_current_id(container) # NoResource THEN get_current_id(container) ELSE idref

\* format!("{}_{}", get_current_id().unwrap_or(idref), index)
chapter_id(container, idref, index) ==
    (IF get_current_id(container) # NoResource THEN get_current_id(container) ELSE idref)
        \o <<"_">> \o to_string(index)

\* push_chapter taking end_position before the separator is pushed.
push_chapter_before_separator(container, index, content, chapters) ==
    LET idref == container.spine[index + 1]
        chapter_content == get_resource_str(container, idref)
        start_position == Len(content)
        stripped == content \o strip_html_tags(chapter_content)
    IN [content |-> stripped \o <<"\n", "\n">>,
        chapters |-> Append(chapters,
                        [id |-> chapter_id(container, idref, index),
                         title |-> extract_chapter_title(chapter_content, index + 1),
                         start_position |-> start_position,
                         end_position |-> Len(stripped)])]

\* The body of the spine loop for one resolved entry: the new (content, chapters).
push_chapter(container, index, content, chapters) ==
    LET idref == container.spine[index + 1]
        chapter_content == get_resource_str(container, idref)
        start_position == Len(content)
        content1 == content \o strip_html_tags(chapter_content) \o <<"\n", "\n">>
        end_position == Len(content1)
    IN [content |-> content1,
        chapters |-> Append(chapters,
                        [id |-> chapter_id(container, idref, index),
                         title |-> extract_chapter_title(chapter_content, index + 1),
                         start_position |-> start_position,
                         end_position |-> end_position])]

\* The spine loop leaving at the first entry that does not resolve.
RECURSIVE spine_loop_until_unresolved(_, _, _, _)
spine_loop_until_unresolved(container, index, content, chapters) ==
    IF index >= Len(container.spine) THEN [content |-> content, chapters |-> chapters]
    ELSE IF get_resource_str(container, container.spine[index + 1]) = NoResource
         THEN [content |-> content, chapters |-> chapters]
         ELSE LET r == push_chapter(container, index, content, chapters)
              IN spine_loop_until_unresolved(container, index + 1, r.content, r.chapters)

\* for (index, spine_item) in spine.iter().enumerate() { if let Some(..) = .. { .. } }
RECURSIVE spine_loop(_, _, _, _)
spine_loop(container, index, content, chapters) ==
    IF index >= Len(container.spine) THEN [content |-> content, chapters |-> chapters]
    ELSE IF get_resource_str(container, container.spine[index + 1]) = NoResource
         THEN spine_loop(container, index + 1, content, chapters)
         ELSE LET r == push_chapter(container, index, content, chapters)
              IN spine_loop(container, index + 1, r.content, r.chapters)

WordsPerPage == 500

\* The page estimate without the .max(1).
estimated_pages_unclamped(content) == Len(split_whitespace(content)) \div WordsPerPage

\* (word_count / 500).max(1)
estimated_pages(content) == Max(Len(split_whitespace(content)) \div WordsPerPage, 1)

\* parse_epub on a container that opened; the Document without its uuid.
parse_epub(container) ==
    LET r == spine_loop(container, 0, <<>>, <<>>)
    IN [file_type |-> "epub",
        content |-> r.content,
        total_pages |-> estimated_pages(r.content),
        chapters |-> r.chapters]

(***************************************************************************)
(* std::str and std::path, as used by the handlers and the other parsers.  *)
(***************************************************************************)
UpperCase == <<"A", "B", "C", "D", "E", "F", "G", "H", "I", "J", "K", "L", "M", "N", "O", "P", "Q", "R", "S", "T", "U", "V", "W", "X", "Y", "Z">>
LowerCase == <<"a", "b", "c", "d", "e", "f", "g", "h", "i", "j", "k", "l", "m", "n", "o", "p", "q", "r", "s", "t", "u", "v", "w", "x", "y", "z">>

lower_char(ch) ==
    IF \E i \in 1..Len(UpperCase) : UpperCase[i] = ch
    THEN LowerCase[CHOOSE i \in 1..Len(UpperCase) : UpperCase[i] = ch]
    ELSE ch

\* str::to_lowercase
to_lowercase(s) == [i \in 1..Len(s) |-> lower_char(s[i])]

\* str::contains
contains(s, pat) == find(s, pat) # None

\* str::lines: the text split at "\n", without a last empty line.
RECURSIVE lines_from(_, _)
lines_from(s, line) ==
    IF s = <<>> THEN (IF line = <<>> THEN <<>> ELSE <<line>>)
    ELSE IF Head(s) = "\n"
         THEN <<IF line # <<>> /\ line[Len(line)] = "\r"
                THEN SubSeq(line, 1, Len(line) - 1) ELSE line>>
              \o lines_from(Tail(s), <<>>)
         ELSE lines_from(Tail(s), Append(line, Head(s)))

lines(s) == lines_from(s, <<>>)

\* Path::extension returning None
NoExtension == <<"\\0">>

\* Path::file_name: the last component of the path.
file_name(path) ==
    LET slashes == {i \in 1..Len(path) : path[i] = "/"}
    IN IF slashes = {} THEN path
       ELSE SubSeq(path, (CHOOSE i \in slashes : \A j \in slashes : j <= i) + 1, Len(path))

\* Path::extension: what follows the last '.' of the file name, when the file
\* name has a '.' that is not its first character.
path_extension(path) ==
    LET file == file_name(path)
        dots == {i \in 1..Len(file) : file[i] = "."}
    IN IF file = <<>> \/ file = <<".", ".">> \/ dots = {} THEN NoExtension
       ELSE LET last == CHOOSE i \in dots : \A j \in dots : j <= i
            IN IF last = 1 THEN NoExtension ELSE SubSeq(file, last + 1, Len(file))

(***************************************************************************)
(* parsers/pdf_parser.rs and parsers/txt_parser.rs                         *)
(***************************************************************************)
\* A page whose text extraction fails (extract_text returns Err).
NoText == <<"\\0">>

\* for (page_id, _) in doc.get_pages() { if let Ok(text) = .. { push text, "\n\n" } }
RECURSIVE page_loop(_)
page_loop(pages) ==
    IF pages = <<>> THEN <<>>
    ELSE (IF Head(pages) = NoText THEN <<>> ELSE Head(pages) \o <<"\n", "\n">>)
         \o page_loop(Tail(pages))

\* content.lines().map(trim).filter(!is_empty).join("\n")
clean_lines(content) ==
    LET trimmed == [i \in 1..Len(lines(content)) |-> trim(lines(content)[i])]
        NotEmpty(line) == line # <<>>
    IN join(SelectSeq(trimmed, NotEmpty), <<"\n">>)

parse_pdf(pages) ==
    [file_type |-> "pdf",
     content |-> clean_lines(page_loop(pages)),
     total_pages |-> Len(pages),
     chapters |-> <<>>]

parse_txt(text) ==
    [file_type |-> "txt",
     content |-> text,
     total_pages |-> estimated_pages(text),
     chapters |-> <<>>]

(***************************************************************************)
(* The parser dispatch every handler of main.rs repeats.                   *)
(***************************************************************************)
\* select_parser matching the extension as written, without to_lowercase.
select_parser_case_sensitive(file_path) ==
    LET extension == path_extension(file_path) IN
    IF extension = NoExtension
    THEN [ok |-> FALSE, parser |-> "none", error |-> "Invalid file extension"]
    ELSE IF extension = <<"e", "p", "u", "b">> THEN [ok |-> TRUE, parser |-> "epub", error |-> ""]
    ELSE IF extension = <<"p", "d", "f">> THEN [ok |-> TRUE, parser |-> "pdf", error |-> ""]
    ELSE IF extension = <<"t", "x", "t">> THEN [ok |-> TRUE, parser |-> "txt", error |-> ""]
    ELSE [ok |-> FALSE, parser |-> "none", error |-> "Unsupported file format"]

\* match extension.to_lowercase().as_str() { "epub" => .., "pdf" => .., "txt" => .., _ => Err }
select_parser(file_path) ==
    LET extension == path_extension(file_path) IN
    IF extension = NoExtension
    THEN [ok |-> FALSE, parser |-> "none", error |-> "Invalid file extension"]
    ELSE LET lower == to_lowercase(extension) IN
         IF lower = <<"e", "p", "u", "b">> THEN [ok |-> TRUE, parser |-> "epub", error |-> ""]
         ELSE IF lower = <<"p", "d", "f">> THEN [ok |-> TRUE, parser |-> "pdf", error |-> ""]
         ELSE IF lower = <<"t", "x", "t">> THEN [ok |-> TRUE, parser |-> "txt", error |-> ""]
         ELSE [ok |-> FALSE, parser |-> "none", error |-> "Unsupported file format"]

(***************************************************************************)
(* EPUB containers the parser is run on.                                   *)
(***************************************************************************)
MarkupHello == <<"<", "p", ">", "H", "e", "l", "l", "o", " ", "<", "b", ">", "W", "o", "r", "l", "d", "<", "/", "b", ">", "<", "/", "p", ">">>
MarkupIntro == <<"<", "h", "1", ">", "I", "n", "t", "r", "o", "<", "/", "h", "1", ">", "<", "p", ">", "a", " ", " ", "b", "<", "/", "p", ">">>
MarkupTwo == <<"<", "h", "2", ">", "T", "w", "o", "<", "/", "h", "2", ">", "x">>
MarkupAttr == <<"<", "h", "1", " ", "i", "d", "=", "\"", "t", "\"", ">", " ", "A", " ", "<", "i", ">", "b", "<", "/", "i", ">", "\n", "<", "/", "h", "1", ">", "\n", " ", "c">>
MarkupPlain == <<"a", " ", "b", "\n", " ", "c">>
MarkupEmpty == <<>>

Markups == {MarkupHello, MarkupIntro, MarkupTwo, MarkupAttr, MarkupPlain, MarkupEmpty}

IdrefA == <<"a">>
IdrefA1 == <<"a", "_", "1">>
IdrefB == <<"b">>
Idrefs == {IdrefA, IdrefA1, IdrefB}

SeqsUpTo(S, n) == UNION {[1..k -> S] : k \in 0..n}

Containers ==
    [spine : SeqsUpTo(Idrefs, MaxSpine),
     resources : [Idrefs -> Markups \cup {NoResource}],
     current : {0}]

NotParsed == [file_type |-> "none"]

\* No function was run on its own yet.
NotCalled == [calls |-> 0]

(***************************************************************************)
(* The files on disk the handlers are asked about.                         *)
(***************************************************************************)
PathBook == <<"b", "o", "o", "k", ".", "E", "P", "U", "B">>
PathCopy == <<"c", "o", "p", "y", ".", "e", "p", "u", "b">>
PathText == <<"n", ".", "t", "x", "t">>
PathPdf == <<"d", ".", "P", "d", "f">>
PathNotes == <<"n", "o", "t", "e", "s">>
PathDoc == <<"x", ".", "d", "o", "c">>

Paths == {PathBook, PathCopy, PathText, PathPdf, PathNotes, PathDoc}

\* book.EPUB and its copy: two resolvable spine entries and one that fails.
BookContainer ==
    [spine |-> <<IdrefA, IdrefA1, IdrefB>>,
     resources |-> [r \in Idrefs |->
                      CASE r = IdrefA -> MarkupIntro
                        [] r = IdrefA1 -> NoResource
                        [] r = IdrefB -> MarkupPlain],
     current |-> 0]

TextFile == <<"a", "b", "c", "\n", "f", "o", "o", " ", "B", "A", "R", "\n", "x", "y", "z">>

PdfPages == << <<" ", "p", " ", "o", "n", "e", " ", "\n", "\n", " ", " ", "\n", "t", "w", "o">>, NoText >>

\* What each parser makes of the file at a path whose parser was selected.
ParsedFile ==
    [p \in {PathBook, PathCopy, PathText, PathPdf} |->
        CASE p \in {PathBook, PathCopy} -> parse_epub(BookContainer)
          [] p = PathText -> parse_txt(TextFile)
          [] p = PathPdf -> parse_pdf(PdfPages)]

NoDocument == [file_type |-> "none"]

Ok(value) == [ok |-> TRUE, value |-> value, error |-> "", events |-> <<>>]
Err(error) == [ok |-> FALSE, value |-> <<>>, error |-> error, events |-> <<>>]

\* The outcome of the parser the dispatch selected: Err when the parser cannot
\* open or read the file, else the Document, its id the uuid.
parser_result(parser, file_path, readable, uuid) ==
    IF ~readable \/ file_path \notin DOMAIN ParsedFile
    THEN [ok |-> FALSE, value |-> <<>>, error |-> "Failed to open", events |-> <<parser>>]
    ELSE [ok |-> TRUE,
          value |-> [id |-> uuid, file_path |-> file_path] @@ ParsedFile[file_path],
          error |-> "",
          events |-> <<parser>>]

\* The dispatch and the parser call of a handler.  readable is whether the
\* parser can open and read the file; uuid is the Uuid::new_v4() of the parse;
\* events names the parser that was called.
dispatch(selected, file_path, readable, uuid) ==
    IF ~selected.ok THEN Err(selected.error)
    ELSE parser_result(selected.parser, file_path, readable, uuid)

parse_document(file_path, readable, uuid) ==
    dispatch(select_parser(file_path), file_path, readable, uuid)

(***************************************************************************)
(* main.rs: DocumentCache, a HashMap<String, Document> behind a Mutex.     *)
(***************************************************************************)
CacheCapacity == 5

Remove(map, key) == [k \in DOMAIN map \ {key} |-> map[k]]

Insert(map, key, value) ==
    [k \in DOMAIN map \cup {key} |-> IF k = key THEN value ELSE map[k]]

\* DocumentCache::get
cache_get(map, document_id) ==
    IF document_id \in DOMAIN map THEN map[document_id] ELSE NoDocument

\* cache.keys().next(): the HashMap iterates in an arbitrary order, so any key
\* of the map can come first.
first_keys(map) == DOMAIN map

\* DocumentCache::set refusing the new document when the cache is full.
cache_set_refuse_when_full(map, document_id, document, oldest_key) ==
    IF Cardinality(DOMAIN map) >= CacheCapacity THEN map
    ELSE Insert(map, document_id, document)

\* DocumentCache::set evicting only above the capacity.
cache_set_above_capacity(map, document_id, document, oldest_key) ==
    Insert(IF Cardinality(DOMAIN map) > CacheCapacity THEN Remove(map, oldest_key) ELSE map,
           document_id, document)

\* DocumentCache::set, oldest_key being the key cache.keys().next() yields.
cache_set(map, document_id, document, oldest_key) ==
    Insert(IF Cardinality(DOMAIN map) >= CacheCapacity THEN Remove(map, oldest_key) ELSE map,
           document_id, document)

\* DocumentCache::clear
cache_clear(map, document_id) == Remove(map, document_id)

(***************************************************************************)
(* database/mod.rs: the statements run on the SQLite tables.  The tables   *)
(* are sets of rows; a database is the pair [documents, chapters].  sqlx opens     *)
(* SQLite with foreign keys enforced, so the chapters' FOREIGN KEY ... ON  *)
(* DELETE CASCADE acts.                                                    *)
(***************************************************************************)
\* DELETE FROM documents WHERE id = ?, cascading to the chapters.
delete_document(tables, document_id) ==
    [documents |-> {d \in tables.documents : d.id # document_id},
     chapters |-> {c \in tables.chapters : c.document_id # document_id}]

\* save_document replacing on a conflict of the id only.
save_document_replace_by_id(tables, stored_doc) ==
    LET replaced == {d \in tables.documents : d.id = stored_doc.id}
        gone == {d.id : d \in replaced}
    IN [documents |-> (tables.documents \ replaced) \cup {stored_doc},
        chapters |-> {c \in tables.chapters : c.document_id \notin gone}]

\* INSERT OR REPLACE INTO documents: the rows in conflict on the PRIMARY KEY id
\* or on the UNIQUE file_path are deleted (cascading), then the row is inserted.
save_document(tables, stored_doc) ==
    LET replaced == {d \in tables.documents :
                        d.id = stored_doc.id \/ d.file_path = stored_doc.file_path}
        gone == {d.id : d \in replaced}
    IN [documents |-> (tables.documents \ replaced) \cup {stored_doc},
        chapters |-> {c \in tables.chapters : c.document_id \notin gone}]

\* UPDATE documents SET current_position = ? WHERE id = ?
update_reading_progress(tables, document_id, position) ==
    [documents |-> {IF d.id = document_id THEN [d EXCEPT !.current_position = position] ELSE d
                        : d \in tables.documents},
     chapters |-> tables.chapters]

\* documents.iter().find(|doc| doc.id == document_id)
find_by_id(documents, document_id) == {d \in documents : d.id = document_id}

\* documents.iter().find(|doc| doc.file_path == file_path)
find_by_path(documents, file_path) == {d \in documents : d.file_path = file_path}

\* save_chapters, first statement: DELETE FROM chapters WHERE document_id = ?
delete_chapters(tables, document_id) ==
    [documents |-> tables.documents,
     chapters |-> {c \in tables.chapters : c.document_id # document_id}]

\* The row save_chapters inserts for chapters[order].
chapter_row(document_id, chapter, order) ==
    [id |-> chapter.id,
     document_id |-> document_id,
     title |-> chapter.title,
     start_position |-> chapter.start_position,
     end_position |-> chapter.end_position,
     chapter_order |-> order]

\* Whether SQLite accepts the INSERT: id is the table's PRIMARY KEY and
\* document_id REFERENCES documents (id).
insert_accepted(tables, row) ==
    /\ \A c \in tables.chapters : c.id # row.id
    /\ \E d \in tables.documents : d.id = row.document_id

insert_chapter(tables, row) ==
    [documents |-> tables.documents, chapters |-> tables.chapters \cup {row}]

\* select_chapters without the ORDER BY: the rows in any order.
select_chapters_unordered(tables, document_id) ==
    LET rows == {c \in tables.chapters : c.document_id = document_id}
        n == Cardinality(rows)
    IN {s \in [1..n -> rows] : \A i, j \in 1..n : i # j => s[i] # s[j]}

\* SELECT ... FROM chapters WHERE document_id = ? ORDER BY chapter_order: the
\* orders the rows can come back in (rows of equal chapter_order in any order).
select_chapters(tables, document_id) ==
    LET rows == {c \in tables.chapters : c.document_id = document_id}
        n == Cardinality(rows)
    IN {s \in [1..n -> rows] :
            /\ \A i, j \in 1..n : i # j => s[i] # s[j]
            /\ \A i \in 1..(n - 1) : s[i].chapter_order <= s[i + 1].chapter_order}

\* get_cached_chapters on the selected rows: None when there is no row.
cached_chapters(rows) ==
    [some |-> rows # <<>>,
     chapters |-> [i \in 1..Len(rows) |->
                     [id |-> rows[i].id,
                      title |-> rows[i].title,
                      start_position |-> rows[i].start_position,
                      end_position |-> rows[i].end_position]]]

\* The statement of save_chapters that fails for a reason outside the tables
\* (I/O, a lock): none, the DELETE, or the INSERT of chapters[failing].
NoFailure == None
DeleteFails == None - 1

\* The INSERT loop of save_chapters from chapters[order] on; the first failing
\* INSERT ends it (the ? operator) and the rows written so far stay.
RECURSIVE insert_chapters(_, _, _, _, _)
insert_chapters(tables, document_id, chapters, order, failing) ==
    IF order >= Len(chapters) THEN [ok |-> TRUE, tables |-> tables]
    ELSE IF order = failing
            \/ ~insert_accepted(tables, chapter_row(document_id, chapters[order + 1], order))
         THEN [ok |-> FALSE, tables |-> tables]
         ELSE insert_chapters(
                  insert_chapter(tables, chapter_row(document_id, chapters[order + 1], order)),
                  document_id, chapters, order + 1, failing)

\* Database::save_chapters run from its first to its last statement.
save_chapters(tables, document_id, chapters, failing) ==
    IF failing = DeleteFails THEN [ok |-> FALSE, tables |-> tables]
    ELSE insert_chapters(delete_chapters(tables, document_id), document_id, chapters, 0, failing)

\* The StoredDocument open_document saves.
stored_document(document, file_path) ==
    [id |-> document.id,
     file_path |-> file_path,
     file_type |-> document.file_type,
     total_pages |-> document.total_pages,
     current_position |-> 0]

\* search_lines comparing the line and the query as written.
search_lines_case_sensitive(content, query) ==
    LET all == lines(content)
        numbered == [i \in 1..Len(all) |-> <<i - 1, all[i]>>]
        Matches(pair) == contains(pair[2], query)
    IN SelectSeq(numbered, Matches)

\* search_in_document: the (line_num, line) pairs of the matching lines.
search_lines(content, query) ==
    LET all == lines(content)
        numbered == [i \in 1..Len(all) |-> <<i - 1, all[i]>>]
        Matches(pair) == contains(to_lowercase(pair[2]), to_lowercase(query))
    IN SelectSeq(numbered, Matches)

(***************************************************************************)
(* The command handlers of main.rs.  tauri runs each invocation as a task  *)
(* of the tokio runtime; a task is at "idle" before it is invoked, at      *)
(* "done" when it holds its return value, and in between stands before its *)
(* next access to the cache or the database.  The parsers touch neither,   *)
(* so a parse is part of the step that follows or precedes it.             *)
(***************************************************************************)
Handlers == {"h1", "h2"}

NoId == 0

\* The ids a front end can send: every uuid issued so far and one never issued.
KnownIds == 0..(next_uuid - 1)

Positions == {7}

Queries == {<<"b", "a", "r">>, <<"q">>}

Idle == [pc |-> "idle"]

Pending == [ok |-> FALSE, value |-> <<>>, error |-> "pending", events |-> <<>>]

NewRequest(cmd, file_path, document_id) ==
    [cmd |-> cmd,
     pc |-> "new",
     file_path |-> file_path,
     document_id |-> document_id,
     found |-> NoId,
     document |-> NoDocument,
     order |-> 0,
     result |-> Pending,
     trace |-> <<>>,
     mem_present |-> "n/a",
     rows_present |-> "n/a"]

\* What a lookup saw: "hit" or "miss" ("n/a" before the lookup).
present(seen) == IF seen THEN "hit" ELSE "miss"

At(r, pc, events) == [r EXCEPT !.pc = pc, !.trace = r.trace \o events]

Return(r, events, result) ==
    [r EXCEPT !.pc = "done", !.trace = r.trace \o events, !.result = result]

\* Uuid::new_v4() of a parse.  open_document saves the uuid as the id of the
\* library record, so its uuids are numbered and MaxUuids bounds the
\* successful opens.  No other handler reads the id of the Document it
\* parses: there the uuid is the one value UnreadUuid.
UnreadUuid == NoId - 1

Openable == IF next_uuid <= MaxUuids THEN BOOLEAN ELSE {FALSE}

Set(h, r) == req' = [req EXCEPT ![h] = r]

\* A return value is taken by the front end before any other task steps.  A
\* return touches neither the cache nor the database, so no interleaving of
\* the accesses to them is lost.
NoneDone == \A h \in Handlers : req[h].pc # "done"

\* OpenParsed saving a library record of the path before the parse is looked at.
OpenParsed_save_before_parse(h, r, parsed, saved) ==
    IF ~parsed.ok
    THEN /\ Set(h, Return(r, parsed.events, parsed))
         /\ db' = save_document(db, [id |-> next_uuid, file_path |-> r.file_path,
                                     file_type |-> "none", total_pages |-> 1,
                                     current_position |-> 0])
         /\ UNCHANGED next_uuid
    ELSE /\ next_uuid' = next_uuid + 1
         /\ IF saved
            THEN /\ db' = save_document(db, stored_document(parsed.value, r.file_path))
                 /\ Set(h, Return(r, parsed.events \o <<"save_document">>, Ok(parsed.value)))
            ELSE /\ UNCHANGED db
                 /\ Set(h, Return(r, parsed.events \o <<"save_document">>,
                                  Err("Failed to save document")))

\* open_document after the dispatch and the parse: one INSERT OR REPLACE.
OpenParsed(h, r, parsed, saved) ==
    IF ~parsed.ok
    THEN /\ Set(h, Return(r, parsed.events, parsed))
         /\ UNCHANGED <<db, next_uuid>>
    ELSE /\ next_uuid' = next_uuid + 1
         /\ IF saved
            THEN /\ db' = save_document(db, stored_document(parsed.value, r.file_path))
                 /\ Set(h, Return(r, parsed.events \o <<"save_document">>, Ok(parsed.value)))
            ELSE /\ UNCHANGED db
                 /\ Set(h, Return(r, parsed.events \o <<"save_document">>,
                                  Err("Failed to save document")))

\* open_document
OpenDocument(h) ==
    /\ req[h].pc = "idle"
    /\ NoneDone
    /\ \E file_path \in Paths, readable \in Openable, saved \in BOOLEAN :
        OpenParsed(h, NewRequest("open_document", file_path, NoId),
                   parse_document(file_path, readable, next_uuid), saved)
    /\ UNCHANGED <<cache, epub, doc, returned, input, output>>

\* update_reading_progress: one UPDATE.
UpdateProgress(h, r, position, updated) ==
    IF updated
    THEN /\ db' = update_reading_progress(db, r.document_id, position)
         /\ Set(h, Return(r, <<"update_reading_progress">>, Ok(<<>>)))
    ELSE /\ UNCHANGED db
         /\ Set(h, Return(r, <<"update_reading_progress">>, Err("Failed to update progress")))

UpdateReadingProgress(h) ==
    /\ req[h].pc = "idle"
    /\ NoneDone
    /\ \E document_id \in KnownIds, position \in Positions, updated \in BOOLEAN :
        UpdateProgress(h, NewRequest("update_reading_progress", <<>>, document_id),
                       position, updated)
    /\ UNCHANGED <<cache, next_uuid, epub, doc, returned, input, output>>

\* delete_document: one DELETE.
Delete(h, r, deleted) ==
    IF deleted
    THEN /\ db' = delete_document(db, r.document_id)
         /\ Set(h, Return(r, <<"delete_document">>, Ok(<<>>)))
    ELSE /\ UNCHANGED db
         /\ Set(h, Return(r, <<"delete_document">>, Err("Failed to delete document")))

DeleteDocument(h) ==
    /\ req[h].pc = "idle"
    /\ NoneDone
    /\ \E document_id \in KnownIds, deleted \in BOOLEAN :
        Delete(h, NewRequest("delete_document", <<>>, document_id), deleted)
    /\ UNCHANGED <<cache, next_uuid, epub, doc, returned, input, output>>

\* The path of the library record a handler found (an empty path when none).
stored_path(stored) == IF stored = {} THEN <<>> ELSE (CHOOSE d \in stored : TRUE).file_path

stored_id(stored) == IF stored = {} THEN NoId ELSE (CHOOSE d \in stored : TRUE).id

\* search_in_document after the SELECT of the library: the lookup of the id,
\* then dispatch, parse and the line search.  An Err of the match (unsupported
\* format or a failed parse) is wrapped by map_err.
SearchFound(h, r, query, selected, stored, parsed) ==
    IF ~selected
    THEN Set(h, Return(r, <<"get_all_documents">>, Err("Failed to get documents")))
    ELSE IF stored = {}
    THEN Set(h, Return(r, <<"get_all_documents">>, Err("Document not found")))
    ELSE IF ~parsed.ok
    THEN Set(h, Return(r, <<"get_all_documents">> \o parsed.events,
                       IF parsed.error = "Invalid file extension" THEN parsed
                       ELSE Err("Failed to parse document")))
    ELSE Set(h, Return(r, <<"get_all_documents">> \o parsed.events,
                       Ok(search_lines(parsed.value.content, query))))

SearchStored(h, r, query, selected, stored, readable) ==
    SearchFound(h, [r EXCEPT !.file_path = stored_path(stored), !.found = stored_id(stored)],
                query, selected, stored,
                parse_document(stored_path(stored), readable, UnreadUuid))

SearchInDocument(h) ==
    /\ req[h].pc = "idle"
    /\ NoneDone
    /\ \E document_id \in KnownIds, query \in Queries, selected \in BOOLEAN,
          readable \in BOOLEAN :
        SearchStored(h, NewRequest("search_in_document", <<>>, document_id), query,
                     selected, find_by_id(db.documents, document_id), readable)
    /\ UNCHANGED <<db, cache, next_uuid, epub, doc, returned, input, output>>

\* get_document_content, lines 204-209: SELECT the library and find the id of
\* the path.  Without a record there is no cache access: dispatch and parse
\* follow at once and the parsed content is returned.
ContentFound(h, r, selected, stored, parsed) ==
    IF ~selected
    THEN Set(h, Return(r, <<"get_all_documents">>, Err("Failed to get documents")))
    ELSE IF stored # {}
    THEN Set(h, At([r EXCEPT !.found = stored_id(stored)], "content_get",
                   <<"get_all_documents">>))
    ELSE IF ~parsed.ok
    THEN Set(h, Return(r, <<"get_all_documents">> \o parsed.events, parsed))
    ELSE Set(h, Return(r, <<"get_all_documents">> \o parsed.events,
                       Ok(parsed.value.content)))

GetContentLookup(h) ==
    /\ req[h].pc = "idle"
    /\ NoneDone
    /\ \E file_path \in Paths, selected \in BOOLEAN, readable \in BOOLEAN :
        ContentFound(h, NewRequest("get_document_content", file_path, NoId), selected,
                     find_by_path(db.documents, file_path),
                     parse_document(file_path, readable, UnreadUuid))
    /\ UNCHANGED <<db, cache, next_uuid, epub, doc, returned, input, output>>

\* ContentCached parsing whatever the cache holds.
ContentCached_always_parse(h, r, cached_doc, parsed) ==
    IF ~parsed.ok
    THEN Set(h, Return(r, <<"cache.get">> \o parsed.events, parsed))
    ELSE Set(h, At([r EXCEPT !.document = parsed.value], "content_set",
                   <<"cache.get">> \o parsed.events))

\* get_document_content, lines 212-230: cache.get; on a miss dispatch and parse.
ContentCached(h, r, cached_doc, parsed) ==
    IF cached_doc # NoDocument
    THEN Set(h, Return(r, <<"cache.get">>, Ok(cached_doc.content)))
    ELSE IF ~parsed.ok
    THEN Set(h, Return(r, <<"cache.get">> \o parsed.events, parsed))
    ELSE Set(h, At([r EXCEPT !.document = parsed.value], "content_set",
                   <<"cache.get">> \o parsed.events))

GetContentCacheGet(h) ==
    /\ req[h].pc = "content_get"
    /\ NoneDone
    /\ \E readable \in BOOLEAN :
        ContentCached(h, [req[h] EXCEPT !.mem_present = present(req[h].found \in DOMAIN cache)],
                      cache_get(cache, req[h].found),
                      parse_document(req[h].file_path, readable, UnreadUuid))
    /\ UNCHANGED <<db, cache, next_uuid, epub, doc, returned, input, output>>

\* get_document_content, lines 233-237: cache.set and the return.
GetContentCacheSet(h) ==
    /\ req[h].pc = "content_set"
    /\ NoneDone
    /\ \E oldest_key \in (IF cache = <<>> THEN {NoId} ELSE first_keys(cache)) :
        cache' = cache_set(cache, req[h].found, req[h].document, oldest_key)
    /\ Set(h, Return(req[h], <<"cache.set">>, Ok(req[h].document.content)))
    /\ UNCHANGED <<db, next_uuid, epub, doc, returned, input, output>>

\* ChaptersCached reading the chapter table whatever the cache holds.
ChaptersCached_always_db(h, r, cached_doc) ==
    Set(h, At(r, "chapters_db", <<"cache.get">>))

\* get_chapters, lines 247-250: cache.get.
ChaptersCached(h, r, cached_doc) ==
    IF cached_doc # NoDocument
    THEN Set(h, Return(r, <<"cache.get">>, Ok(cached_doc.chapters)))
    ELSE Set(h, At(r, "chapters_db", <<"cache.get">>))

GetChaptersCacheGet(h) ==
    /\ req[h].pc = "idle"
    /\ NoneDone
    /\ \E document_id \in KnownIds :
        ChaptersCached(h, [NewRequest("get_chapters", <<>>, document_id)
                              EXCEPT !.mem_present = present(document_id \in DOMAIN cache)],
                       cache_get(cache, document_id))
    /\ UNCHANGED <<db, cache, next_uuid, epub, doc, returned, input, output>>

\* get_chapters, lines 253-264: get_cached_chapters; Ok(None) and Err both
\* fall through to the parse.
ChaptersSelected(h, r, selected, cached) ==
    IF selected /\ cached.some
    THEN Set(h, Return(r, <<"get_cached_chapters">>, Ok(cached.chapters)))
    ELSE Set(h, At(r, "chapters_lookup", <<"get_cached_chapters">>))

GetChaptersDbGet(h) ==
    /\ req[h].pc = "chapters_db"
    /\ NoneDone
    /\ \E selected \in BOOLEAN, rows \in select_chapters(db, req[h].document_id) :
        ChaptersSelected(h, [req[h] EXCEPT !.rows_present = present(selected /\ rows # <<>>)],
                         selected, cached_chapters(rows))
    /\ UNCHANGED <<db, cache, next_uuid, epub, doc, returned, input, output>>

\* get_chapters, lines 267-298 up to save_chapters: SELECT the library, find
\* the record, dispatch and parse; an empty chapter list is returned at once.
ChaptersFound(h, r, selected, stored, parsed) ==
    IF ~selected
    THEN Set(h, Return(r, <<"get_all_documents">>, Err("Failed to get documents")))
    ELSE IF stored = {}
    THEN Set(h, Return(r, <<"get_all_documents">>, Err("Document not found")))
    ELSE IF ~parsed.ok
    THEN Set(h, Return(r, <<"get_all_documents">> \o parsed.events, parsed))
    ELSE IF parsed.value.chapters = <<>>
    THEN Set(h, Return([r EXCEPT !.document = parsed.value],
                       <<"get_all_documents">> \o parsed.events, Ok(parsed.value.chapters)))
    ELSE Set(h, At([r EXCEPT !.document = parsed.value], "chapters_delete",
                   <<"get_all_documents">> \o parsed.events))

ChaptersStored(h, r, selected, stored, readable) ==
    ChaptersFound(h, [r EXCEPT !.file_path = stored_path(stored), !.found = stored_id(stored)],
                  selected, stored, parse_document(stored_path(stored), readable, UnreadUuid))

GetChaptersLookup(h) ==
    /\ req[h].pc = "chapters_lookup"
    /\ NoneDone
    /\ \E selected \in BOOLEAN, readable \in BOOLEAN :
        ChaptersStored(h, req[h], selected, find_by_id(db.documents, req[h].document_id),
                       readable)
    /\ UNCHANGED <<db, cache, next_uuid, epub, doc, returned, input, output>>

\* save_chapters, lines 280-283: the DELETE.  A failure ends save_chapters;
\* get_chapters logs it and returns the parsed chapters.
SaveChaptersDelete(h) ==
    /\ req[h].pc = "chapters_delete"
    /\ NoneDone
    /\ \E deleted \in BOOLEAN :
        IF deleted
        THEN /\ db' = delete_chapters(db, req[h].document_id)
             /\ Set(h, At(req[h], "chapters_insert", <<"delete_chapters">>))
        ELSE /\ UNCHANGED db
             /\ Set(h, Return(req[h], <<"delete_failed">>, Ok(req[h].document.chapters)))
    /\ UNCHANGED <<cache, next_uuid, epub, doc, returned, input, output>>

\* InsertRow returning the failure of the INSERT as the error of get_chapters.
InsertRow_fatal(h, r, row, written) ==
    IF written /\ insert_accepted(db, row)
    THEN /\ db' = insert_chapter(db, row)
         /\ IF r.order + 1 < Len(r.document.chapters)
            THEN Set(h, At([r EXCEPT !.order = r.order + 1], "chapters_insert",
                           <<"insert_chapter">>))
            ELSE Set(h, Return([r EXCEPT !.order = r.order + 1], <<"insert_chapter">>,
                               Ok(r.document.chapters)))
    ELSE /\ UNCHANGED db
         /\ Set(h, Return(r, <<"insert_failed">>, Err("Failed to save chapters")))

\* save_chapters, lines 286-302: the INSERT of chapters[order]; after the last
\* one, or after a failed one, get_chapters returns the parsed chapters.
InsertRow(h, r, row, written) ==
    IF written /\ insert_accepted(db, row)
    THEN /\ db' = insert_chapter(db, row)
         /\ IF r.order + 1 < Len(r.document.chapters)
            THEN Set(h, At([r EXCEPT !.order = r.order + 1], "chapters_insert",
                           <<"insert_chapter">>))
            ELSE Set(h, Return([r EXCEPT !.order = r.order + 1], <<"insert_chapter">>,
                               Ok(r.document.chapters)))
    ELSE /\ UNCHANGED db
         /\ Set(h, Return(r, <<"insert_failed">>, Ok(r.document.chapters)))

SaveChaptersInsert(h) ==
    /\ req[h].pc = "chapters_insert"
    /\ NoneDone
    /\ \E written \in BOOLEAN :
        InsertRow(h, req[h],
                  chapter_row(req[h].document_id,
                              req[h].document.chapters[req[h].order + 1], req[h].order),
                  written)
    /\ UNCHANGED <<cache, next_uuid, epub, doc, returned, input, output>>

\* The front end takes the return value; the task is over.
Respond(h) ==
    /\ req[h].pc = "done"
    /\ Set(h, Idle)
    /\ UNCHANGED <<db, cache, next_uuid, epub, doc, returned, input, output>>

\* The process exits and starts again: the tasks and the DocumentCache are
\* gone, the database file stays.
Restart ==
    /\ \E h \in Handlers : req[h].pc # "idle"
    /\ req' = [h \in Handlers |-> Idle]
    /\ cache' = <<>>
    /\ UNCHANGED <<db, next_uuid, epub, doc, returned, input, output>>

\* DocumentCache driven directly, for SpecCache: any id, one of two Documents.
CacheIds == 1..MaxCacheIds

CacheDocuments ==
    {parse_document(PathBook, TRUE, UnreadUuid).value,
     parse_document(PathText, TRUE, UnreadUuid).value}

CacheSet ==
    /\ \E document_id \in CacheIds, document \in CacheDocuments,
          oldest_key \in (IF cache = <<>> THEN {NoId} ELSE first_keys(cache)) :
        cache' = cache_set(cache, document_id, document, oldest_key)
    /\ returned' = NoDocument
    /\ UNCHANGED <<db, req, next_uuid, epub, doc, input, output>>

CacheGet ==
    /\ \E document_id \in CacheIds : returned' = cache_get(cache, document_id)
    /\ UNCHANGED <<db, cache, req, next_uuid, epub, doc, input, output>>

CacheClear ==
    /\ \E document_id \in CacheIds : cache' = cache_clear(cache, document_id)
    /\ returned' = NoDocument
    /\ UNCHANGED <<db, req, next_uuid, epub, doc, input, output>>

(***************************************************************************)
(* Spec: the handlers invoked one at a time, from an empty library.        *)
(***************************************************************************)
Init ==
    /\ db = [documents |-> {}, chapters |-> {}]
    /\ cache = <<>>
    /\ req = [h \in Handlers |-> Idle]
    /\ next_uuid = 1
    /\ epub = BookContainer
    /\ doc = NotParsed
    /\ returned = NoDocument
    /\ input = <<>>
    /\ output = NotCalled

Step(h) ==
    \/ OpenDocument(h)
    \/ UpdateReadingProgress(h)
    \/ DeleteDocument(h)
    \/ SearchInDocument(h)
    \/ GetContentLookup(h)
    \/ GetContentCacheGet(h)
    \/ GetContentCacheSet(h)
    \/ GetChaptersCacheGet(h)
    \/ GetChaptersDbGet(h)
    \/ GetChaptersLookup(h)
    \/ SaveChaptersDelete(h)
    \/ SaveChaptersInsert(h)
    \/ Respond(h)

Next == Step("h1") \/ Restart

Spec == Init /\ [][Next]_vars

(***************************************************************************)
(* SpecConc: two tasks running the handlers that share the cache and the   *)
(* chapter table, in every interleaving of their steps.  It starts after   *)
(* book.EPUB was opened under uuid 1; the uuids up to MaxUuids - 1 are     *)
(* spent, so one more open succeeds.                                       *)
(***************************************************************************)
ConcInit ==
    /\ db = save_document([documents |-> {}, chapters |-> {}],
                          stored_document(parse_document(PathBook, TRUE, 1).value, PathBook))
    /\ cache = <<>>
    /\ req = [h \in Handlers |-> Idle]
    /\ next_uuid = Max(MaxUuids, 2)
    /\ epub = BookContainer
    /\ doc = NotParsed
    /\ returned = NoDocument
    /\ input = <<>>
    /\ output = NotCalled

ConcStep(h) ==
    \/ OpenDocument(h)
    \/ DeleteDocument(h)
    \/ GetContentLookup(h)
    \/ GetContentCacheGet(h)
    \/ GetContentCacheSet(h)
    \/ GetChaptersCacheGet(h)
    \/ GetChaptersDbGet(h)
    \/ GetChaptersLookup(h)
    \/ SaveChaptersDelete(h)
    \/ SaveChaptersInsert(h)
    \/ Respond(h)

ConcNext == (\E h \in Handlers : ConcStep(h)) \/ Restart

SpecConc == ConcInit /\ [][ConcNext]_vars

(***************************************************************************)
(* SpecCache: set, get and clear of one DocumentCache in any order.        *)
(***************************************************************************)
CacheNext == CacheSet \/ CacheGet \/ CacheClear

SpecCache == Init /\ [][CacheNext]_vars

(***************************************************************************)
(* SpecEpub: parse_epub applied to every enumerated container.             *)
(***************************************************************************)
EpubInit ==
    /\ epub \in Containers
    /\ doc = NotParsed
    /\ db = [documents |-> {}, chapters |-> {}]
    /\ cache = <<>>
    /\ req = [h \in Handlers |-> Idle]
    /\ next_uuid = 1
    /\ returned = NoDocument
    /\ input = <<>>
    /\ output = NotCalled

ParseEpubFile ==
    /\ doc = NotParsed
    /\ doc' = parse_epub(epub)
    /\ UNCHANGED <<epub, db, cache, req, next_uuid, returned, input, output>>

SpecEpub == EpubInit /\ [][ParseEpubFile]_vars

(***************************************************************************)
(* SpecFill: documents set under fresh ids into an empty DocumentCache,    *)
(* with no clear; returned keeps what was set under each id.               *)
(***************************************************************************)
FillInit ==
    /\ db = [documents |-> {}, chapters |-> {}]
    /\ cache = <<>>
    /\ req = [h \in Handlers |-> Idle]
    /\ next_uuid = 1
    /\ epub = BookContainer
    /\ doc = NotParsed
    /\ returned = <<>>
    /\ input = <<>>
    /\ output = NotCalled

\* cache.set(doc_id, document.clone()) with an id not set before.
FillSet ==
    /\ next_uuid <= MaxCacheIds
    /\ \E document \in CacheDocuments,
          oldest_key \in (IF cache = <<>> THEN {NoId} ELSE first_keys(cache)) :
        /\ cache' = cache_set(cache, next_uuid, document, oldest_key)
        /\ returned' = Insert(returned, next_uuid, document)
    /\ next_uuid' = next_uuid + 1
    /\ UNCHANGED <<db, req, epub, doc, input, output>>

SpecFill == FillInit /\ [][FillSet]_vars

(***************************************************************************)
(* SpecStrip: strip_html_tags run on every fragment over MarkupChars, and  *)
(* once more on its own output.                                            *)
(***************************************************************************)
MarkupChars == {"<", ">", " ", "\n", "a"}

StripInit ==
    /\ input \in SeqsUpTo(MarkupChars, MaxMarkupLen)
    /\ output = NotCalled
    /\ db = [documents |-> {}, chapters |-> {}]
    /\ cache = <<>>
    /\ req = [h \in Handlers |-> Idle]
    /\ next_uuid = 1
    /\ epub = BookContainer
    /\ doc = NotParsed
    /\ returned = NoDocument

\* strip_html_tags(input)
StripOnce ==
    /\ output = NotCalled
    /\ output' = [calls |-> 1, once |-> strip_html_tags(input), twice |-> <<>>]
    /\ UNCHANGED <<input, db, cache, req, next_uuid, epub, doc, returned>>

\* strip_html_tags of what the first call returned
StripTwice ==
    /\ output.calls = 1
    /\ output' = [output EXCEPT !.calls = 2, !.twice = strip_html_tags(output.once)]
    /\ UNCHANGED <<input, db, cache, req, next_uuid, epub, doc, returned>>

StripNext == StripOnce \/ StripTwice

SpecStrip == StripInit /\ [][StripNext]_vars

(***************************************************************************)
(* SpecSearch: the line search of search_in_document run on every content  *)
(* over ContentChars with every query over QueryChars.                     *)
(***************************************************************************)
ContentChars == {"a", "B", "\n", "\r"}

QueryChars == {"A", "b"}

SearchInit ==
    /\ input \in [content : SeqsUpTo(ContentChars, MaxContentLen),
                  query : SeqsUpTo(QueryChars, MaxQueryLen)]
    /\ output = NotCalled
    /\ db = [documents |-> {}, chapters |-> {}]
    /\ cache = <<>>
    /\ req = [h \in Handlers |-> Idle]
    /\ next_uuid = 1
    /\ epub = BookContainer
    /\ doc = NotParsed
    /\ returned = NoDocument

\* lines 175-187 of search_in_document on document.content and query
SearchLines ==
    /\ output = NotCalled
    /\ output' = [calls |-> 1, results |-> search_lines(input.content, input.query)]
    /\ UNCHANGED <<input, db, cache, req, next_uuid, epub, doc, returned>>

SpecSearch == SearchInit /\ [][SearchLines]_vars

(***************************************************************************)
(* SpecPages: parse_txt and parse_epub run on texts of a given number of   *)
(* words: every count up to SmallWords, and the counts around each         *)
(* multiple of WordsPerPage up to MaxPages pages.                          *)
(***************************************************************************)
WordCounts ==
    (0..SmallWords)
        \cup {pages * WordsPerPage + d : pages \in 1..MaxPages, d \in {0 - 1, 0, 1}}

\* A text of n words of one or two letters, separated by a space, a newline
\* or a tab and a space in turn.
RECURSIVE TextOfWordsIn(_, _)
TextOfWordsIn(from, to) ==
    IF from > to THEN <<" ">>
    ELSE IF from = to
    THEN (IF to % 2 = 0 THEN <<"x", "y">> ELSE <<"w">>)
            \o (CASE to % 3 = 0 -> <<" ">> [] to % 3 = 1 -> <<"\n">> [] OTHER -> <<"\t", " ">>)
    ELSE TextOfWordsIn(from, (from + to) \div 2) \o TextOfWordsIn((from + to) \div 2 + 1, to)

TextOfWords(n) == TextOfWordsIn(1, n)

\* The container of an EPUB whose one chapter is the text in a <p> element.
OneChapterContainer(text) ==
    [spine |-> <<IdrefA>>,
     resources |-> [r \in Idrefs |->
                      IF r = IdrefA THEN <<"<", "p", ">">> \o text \o <<"<", "/", "p", ">">>
                      ELSE NoResource],
     current |-> 0]

PagesInit ==
    /\ input \in [file_type : {"epub", "txt"}, words : WordCounts]
    /\ output = NotCalled
    /\ db = [documents |-> {}, chapters |-> {}]
    /\ cache = <<>>
    /\ req = [h \in Handlers |-> Idle]
    /\ next_uuid = 1
    /\ epub = BookContainer
    /\ doc = NotParsed
    /\ returned = NoDocument

\* parse_epub or parse_txt of the file; output keeps the Document's total_pages.
ParsePages ==
    /\ output = NotCalled
    /\ output' =
          [calls |-> 1,
           total_pages |->
               IF input.file_type = "epub"
               THEN parse_epub(OneChapterContainer(TextOfWords(input.words))).total_pages
               ELSE parse_txt(TextOfWords(input.words)).total_pages]
    /\ UNCHANGED <<input, db, cache, req, next_uuid, epub, doc, returned>>

SpecPages == PagesInit /\ [][ParsePages]_vars

(***************************************************************************)
(* SpecStore: save_chapters and get_cached_chapters of one library         *)
(* document, on the chapters parse_epub makes of every enumerated          *)
(* container.  The chapter table starts empty or with the rows of an       *)
(* earlier save.                                                           *)
(***************************************************************************)
StoreId == 1

\* Rows an earlier save_chapters left for the document.
OldRows ==
    {chapter_row(StoreId, [id |-> <<"a", "_", "0">>, title |-> <<"O", "l", "d">>,
                           start_position |-> 0, end_position |-> 4], 0),
     chapter_row(StoreId, [id |-> <<"z", "_", "9">>, title |-> <<"O", "l", "d", "e", "r">>,
                           start_position |-> 4, end_position |-> 9], 9)}

StoreInit ==
    /\ epub \in Containers
    /\ doc = NotParsed
    /\ \E rows \in {{}, OldRows} :
        db = [documents |-> {[id |-> StoreId, file_path |-> PathBook, file_type |-> "epub",
                              total_pages |-> 1, current_position |-> 0]},
              chapters |-> rows]
    /\ cache = <<>>
    /\ req = [h \in Handlers |-> Idle]
    /\ next_uuid = StoreId + 1
    /\ returned = [op |-> "none", saved |-> FALSE, value |-> cached_chapters(<<>>)]
    /\ input = <<>>
    /\ output = NotCalled

\* What save_chapters left: the tables, and whether it returned Ok.
StoreSaved(outcome) ==
    /\ db' = outcome.tables
    /\ returned' = [op |-> "save", saved |-> outcome.ok, value |-> cached_chapters(<<>>)]

\* db.save_chapters(&document_id, &document.chapters) of a non-empty list.
StoreSave ==
    /\ doc # NotParsed
    /\ doc.chapters # <<>>
    /\ \E failing \in {NoFailure, DeleteFails} \cup (0..(Len(doc.chapters) - 1)) :
        StoreSaved(save_chapters(db, StoreId, doc.chapters, failing))
    /\ UNCHANGED <<epub, doc, cache, req, next_uuid, input, output>>

\* db.get_cached_chapters(&document_id)
StoreGet ==
    /\ doc # NotParsed
    /\ \E rows \in select_chapters(db, StoreId) :
        returned' = [op |-> "get", saved |-> returned.saved, value |-> cached_chapters(rows)]
    /\ UNCHANGED <<epub, doc, db, cache, req, next_uuid, input, output>>

StoreNext == ParseEpubFile \/ StoreSave \/ StoreGet

SpecStore == StoreInit /\ [][StoreNext]_vars

(***************************************************************************)
(* SpecAgain: one front end asking get_chapters again and again for the    *)
(* documents of a library that holds an EPUB, a TXT and a PDF, with        *)
(* restarts in between and no open or delete.  returned is the set of      *)
(* document ids for which a get_chapters has returned Ok so far.           *)
(***************************************************************************)
AgainInit ==
    /\ db = save_document(
              save_document(
                save_document([documents |-> {}, chapters |-> {}],
                              stored_document(parse_document(PathBook, TRUE, 1).value, PathBook)),
                stored_document(parse_document(PathText, TRUE, 2).value, PathText)),
              stored_document(parse_document(PathPdf, TRUE, 3).value, PathPdf))
    /\ cache = <<>>
    /\ req = [h \in Handlers |-> Idle]
    /\ next_uuid = 4
    /\ epub = BookContainer
    /\ doc = NotParsed
    /\ returned = {}
    /\ input = <<>>
    /\ output = NotCalled

\* The front end takes the return value of get_chapters.
Answer(h) ==
    /\ req[h].pc = "done"
    /\ returned' = IF req[h].result.ok THEN returned \cup {req[h].document_id} ELSE returned
    /\ Set(h, Idle)
    /\ UNCHANGED <<db, cache, next_uuid, epub, doc, input, output>>

SpecAgain ==
    AgainInit /\ [][\/ GetChaptersCacheGet("h1")
                    \/ GetChaptersDbGet("h1")
                    \/ GetChaptersLookup("h1")
                    \/ SaveChaptersDelete("h1")
                    \/ SaveChaptersInsert("h1")
                    \/ Answer("h1")
                    \/ Restart]_vars

(***************************************************************************)
(* SpecRace: two tasks, each running one get_chapters, in every            *)
(* interleaving of their steps, after book.EPUB was opened under uuid 1.   *)
(* returned keeps the finished request of each task.                       *)
(***************************************************************************)
RaceInit ==
    /\ db = save_document([documents |-> {}, chapters |-> {}],
                          stored_document(parse_document(PathBook, TRUE, 1).value, PathBook))
    /\ cache = <<>>
    /\ req = [h \in Handlers |-> Idle]
    /\ next_uuid = 2
    /\ epub = BookContainer
    /\ doc = NotParsed
    /\ returned = [h \in Handlers |-> Idle]
    /\ input = <<>>
    /\ output = NotCalled

\* The front end takes the return value of the task's request.
Finish(h) ==
    /\ req[h].pc = "done"
    /\ returned' = [returned EXCEPT ![h] = req[h]]
    /\ Set(h, Idle)
    /\ UNCHANGED <<db, cache, next_uuid, epub, doc, input, output>>

\* A task that has not run its request yet begins it.
Begin(h) == returned[h] = Idle /\ GetChaptersCacheGet(h)

SpecRace ==
    RaceInit /\ [][\E h \in Handlers :
                      \/ Begin(h)
                      \/ GetChaptersDbGet(h)
                      \/ GetChaptersLookup(h)
                      \/ SaveChaptersDelete(h)
                      \/ SaveChaptersInsert(h)
                      \/ Finish(h)]_vars

(***************************************************************************)
(* SpecSet: DocumentCache::set called again and again, from an empty       *)
(* cache; input keeps the id of the last call and the map it found.        *)
(***************************************************************************)
SetCall ==
    /\ \E document_id \in CacheIds, document \in CacheDocuments,
          oldest_key \in (IF cache = <<>> THEN {NoId} ELSE first_keys(cache)) :
        /\ cache' = cache_set(cache, document_id, document, oldest_key)
        /\ input' = [document_id |-> document_id, before |-> cache]
    /\ UNCHANGED <<db, req, next_uuid, epub, doc, returned, output>>

SpecSet == Init /\ [][SetCall]_vars

(***************************************************************************)
(* Oracles for the claims: what the container and the paths say, read off  *)
(* without the parser and the dispatch.                                    *)
(***************************************************************************)
\* The 1-based spine positions whose resource resolves, in spine order.
ResolvedPositions(container) ==
    LET Resolves(i) == container.resources[container.spine[i]] # NoResource
    IN SelectSeq([i \in 1..Len(container.spine) |-> i], Resolves)

\* The raw markup behind the k-th chapter of the parsed container.
ChapterMarkup(container, k) ==
    container.resources[container.spine[ResolvedPositions(container)[k]]]

\* The markups that hold an h1 or h2 heading, and the text of their h1 element.
HeadingMarkups == {MarkupIntro, MarkupTwo, MarkupAttr}

H1Text(markup) ==
    CASE markup = MarkupIntro -> <<"I", "n", "t", "r", "o">>
      [] markup = MarkupAttr -> <<"A", " ", "b">>

ChapterN(n) == <<"C", "h", "a", "p", "t", "e", "r", " ">> \o to_string(n)

Parsed == doc # NotParsed

\* The parser each file on disk is for, by its extension whatever its case.
ExpectedParser(file_path) ==
    CASE file_path = PathBook -> "epub"
      [] file_path = PathCopy -> "epub"
      [] file_path = PathPdf -> "pdf"
      [] file_path = PathText -> "txt"
      [] OTHER -> "none"

IsParserEvent(event) == event \in {"epub", "pdf", "txt"}

IsChapterTableEvent(event) ==
    event \in {"get_cached_chapters", "delete_chapters", "delete_failed",
               "insert_chapter", "insert_failed"}

ParserCalls(trace) == SelectSeq(trace, IsParserEvent)

ChapterTableCalls(trace) == SelectSeq(trace, IsChapterTableEvent)

Occurs(event, trace) == \E i \in 1..Len(trace) : trace[i] = event

Done(h, cmd) == req[h].pc = "done" /\ req[h].cmd = cmd

\* Whether a finished request came as far as the match on the extension.
DispatchReached(r) ==
    \/ r.cmd = "open_document"
    \/ /\ Occurs("get_all_documents", r.trace)
       /\ r.result.error \notin {"Failed to get documents", "Document not found"}
       /\ r.mem_present # "hit"

UnsupportedFormat == {"Invalid file extension", "Unsupported file format"}

\* The trace events of the calls that write the library, the chapter table
\* or the DocumentCache.
IsWriteEvent(event) ==
    event \in {"save_document", "delete_document", "update_reading_progress",
               "delete_chapters", "insert_chapter", "cache.set"}

\* A finished request that failed in the parse (the file could not be opened
\* or read, or its format is not supported) inside open_document,
\* get_document_content or get_chapters, or in the lookup of the id inside
\* get_chapters or search_in_document.
FailedInParseOrLookup(r) ==
    /\ r.pc = "done"
    /\ ~r.result.ok
    /\ \/ /\ r.cmd \in {"open_document", "get_document_content", "get_chapters"}
          /\ r.result.error \in {"Failed to open"} \cup UnsupportedFormat
       \/ /\ r.cmd \in {"get_chapters", "search_in_document"}
          /\ r.result.error = "Document not found"

\* C1: the DocumentCache holds at most 5 entries, whatever set, get and clear
\* calls were made.
C1_CacheBounded == Cardinality(DOMAIN cache) <= CacheCapacity

\* The cache is full and a get has just returned one of its documents.
C1_Witness ==
    /\ Cardinality(DOMAIN cache) = CacheCapacity
    /\ returned # NoDocument
    /\ \E k \in DOMAIN cache : k > CacheCapacity

\* C2 as claimed: a get_chapters that missed the in-memory cache and found no
\* rows in the chapter table, and returned Ok, ran exactly one parser and left
\* an entry for the id in the in-memory cache and rows for it in the chapter
\* table; a get_chapters served by the in-memory cache ran no parser.
C2_ColdGetChaptersFillsBothCaches ==
    \A h \in Handlers :
        Done(h, "get_chapters") =>
            LET r == req[h] IN
            /\ (r.mem_present = "miss" /\ r.rows_present = "miss" /\ r.result.ok) =>
                  /\ Len(ParserCalls(r.trace)) = 1
                  /\ r.document_id \in DOMAIN cache
                  /\ \E c \in db.chapters : c.document_id = r.document_id
            /\ r.mem_present = "hit" => ParserCalls(r.trace) = <<>>

\* C3: get_chapters resolves in order: an in-memory hit returns the cached
\* document's chapters with no read of the chapter table and no parse; else
\* a row in the chapter table returns the stored chapters with no parse; only
\* when both miss is the library looked up and the file parsed.
C3_GetChaptersResolutionOrder ==
    \A h \in Handlers :
        Done(h, "get_chapters") =>
            LET r == req[h] IN
            /\ r.trace[1] = "cache.get"
            /\ r.mem_present \in {"hit", "miss"}
            /\ r.mem_present = "hit" =>
                  /\ r.trace = <<"cache.get">>
                  /\ r.rows_present = "n/a"
                  /\ r.document_id \in DOMAIN cache
                  /\ r.result = Ok(cache[r.document_id].chapters)
            /\ r.mem_present = "miss" =>
                  /\ r.rows_present \in {"hit", "miss"}
                  /\ r.trace[2] = "get_cached_chapters"
            /\ (r.mem_present = "miss" /\ r.rows_present = "hit") =>
                  /\ r.trace = <<"cache.get", "get_cached_chapters">>
                  /\ r.result.ok
                  /\ r.result.value # <<>>
            /\ (r.mem_present = "miss" /\ r.rows_present = "miss") =>
                  /\ Len(r.trace) >= 3
                  /\ r.trace[3] = "get_all_documents"
                  /\ Len(ParserCalls(r.trace)) <= 1
                  /\ r.result.ok => (Len(r.trace) >= 4 /\ IsParserEvent(r.trace[4]))

\* A get_chapters that missed the in-memory cache and was served by the rows
\* of the chapter table.
C3_Witness ==
    \E h \in Handlers :
        /\ Done(h, "get_chapters")
        /\ req[h].mem_present = "miss"
        /\ req[h].rows_present = "hit"
        /\ Len(req[h].result.value) = 2

\* C4: get_document_content returns the cached content without a parse when
\* the in-memory cache holds the id of the library record of the path; else
\* it goes through the dispatch and one parse, never reads or writes the
\* chapter table and, when the path has a library record and the parse
\* succeeds, leaves the parsed document in the cache under the record's id,
\* its content the returned text.
C4_GetContentResolution ==
    \A h \in Handlers :
        (Done(h, "get_document_content")
            /\ req[h].result.error # "Failed to get documents") =>
            LET r == req[h] IN
            /\ ChapterTableCalls(r.trace) = <<>>
            /\ IF r.mem_present = "hit"
               THEN /\ ParserCalls(r.trace) = <<>>
                    /\ r.found \in DOMAIN cache
                    /\ r.result = Ok(cache[r.found].content)
               ELSE /\ Len(ParserCalls(r.trace)) =
                          (IF ExpectedParser(r.file_path) = "none" THEN 0 ELSE 1)
                    /\ r.result.ok => Len(ParserCalls(r.trace)) = 1
                    /\ (r.result.ok /\ r.found # NoId) =>
                          /\ r.found \in DOMAIN cache
                          /\ cache[r.found].file_path = r.file_path
                          /\ cache[r.found].content = r.result.value

\* A get_document_content served by the in-memory cache.
C4_Witness ==
    \E h \in Handlers :
        /\ Done(h, "get_document_content")
        /\ req[h].mem_present = "hit"
        /\ req[h].result.ok
        /\ req[h].result.value # <<>>

\* C5 as claimed: get_chapters and search_in_document of an id that has no
\* library record fail (with "Document not found", or with the failure of the
\* library lookup itself) and return no chapters or matches.
C5_AbsentIdNotFound ==
    \A h \in Handlers :
        ((Done(h, "get_chapters") \/ Done(h, "search_in_document"))
            /\ find_by_id(db.documents, req[h].document_id) = {}) =>
            /\ ~req[h].result.ok
            /\ req[h].result.error \in {"Document not found", "Failed to get documents"}

\* C6: a get_chapters whose DELETE or INSERT on the chapter table failed
\* after the parse still returns Ok with all the chapters of the parsed
\* document.
C6_CacheWriteFailureNotFatal ==
    \A h \in Handlers :
        (Done(h, "get_chapters")
            /\ (Occurs("delete_failed", req[h].trace) \/ Occurs("insert_failed", req[h].trace))) =>
            LET r == req[h] IN
            /\ r.result.ok
            /\ r.result.value = r.document.chapters
            /\ r.document.file_path \in {PathBook, PathCopy}
            /\ Len(r.result.value) = Len(ResolvedPositions(BookContainer))

\* A get_chapters that wrote one chapter and failed on the next.
C6_Witness ==
    \E h \in Handlers :
        /\ Done(h, "get_chapters")
        /\ Occurs("insert_chapter", req[h].trace)
        /\ Occurs("insert_failed", req[h].trace)
        /\ req[h].result.ok

\* C7: a handler that reaches the dispatch calls the EPUB, PDF or TXT parser
\* exactly when the extension of the path is epub, pdf or txt in any case;
\* for any other or no extension it fails and calls no parser.
C7_DispatchByExtension ==
    \A h \in Handlers :
        (req[h].pc = "done"
            /\ req[h].cmd \in {"open_document", "get_document_content",
                               "get_chapters", "search_in_document"}) =>
            LET r == req[h]
                called == ParserCalls(r.trace)
            IN /\ Len(called) <= 1
               /\ \A i \in 1..Len(called) : called[i] = ExpectedParser(r.file_path)
               /\ DispatchReached(r) =>
                     IF ExpectedParser(r.file_path) = "none"
                     THEN called = <<>> /\ ~r.result.ok /\ r.result.error \in UnsupportedFormat
                     ELSE called = <<ExpectedParser(r.file_path)>>
               /\ r.result.error \in UnsupportedFormat =>
                     ExpectedParser(r.file_path) = "none"

\* open_document of "book.EPUB" called the EPUB parser.
C7_Witness ==
    \E h \in Handlers :
        /\ Done(h, "open_document")
        /\ req[h].file_path = PathBook
        /\ ParserCalls(req[h].trace) = <<"epub">>
        /\ req[h].result.ok

C12_FillKeepsFive ==
    next_uuid - 1 >= CacheCapacity =>
        /\ Cardinality(DOMAIN cache) = CacheCapacity
        /\ (next_uuid - 1) \in DOMAIN cache
        /\ \A id \in DOMAIN cache : id \in DOMAIN returned /\ cache[id] = returned[id]

\* Six documents of both kinds were set and one was evicted.
C12_Witness ==
    /\ next_uuid - 1 = CacheCapacity + 1
    /\ Cardinality(DOMAIN cache) = CacheCapacity
    /\ \E id \in DOMAIN returned : id \notin DOMAIN cache
    /\ \E i, j \in DOMAIN cache : cache[i] # cache[j]

\* C13: strip_html_tags is idempotent, and its output holds no '<' or '>',
\* no leading or trailing whitespace, and exactly one space between tokens.
C13_StripIdempotent ==
    /\ output.calls = 2 => output.twice = output.once
    /\ output.calls >= 1 =>
          LET text == output.once IN
          /\ \A i \in 1..Len(text) : text[i] \notin {"<", ">", "\n", "\t", "\r"}
          /\ text # <<>> => text[1] # " " /\ text[Len(text)] # " "
          /\ \A i \in 1..(Len(text) - 1) : ~(text[i] = " " /\ text[i + 1] = " ")

\* A fragment with a tag, a stray '>' and runs of whitespace was stripped
\* twice, leaving two tokens.
C13_Witness ==
    /\ output.calls = 2
    /\ \E i \in 1..Len(input) : input[i] = "<"
    /\ \E i \in 1..(Len(input) - 1) : IsWhitespace(input[i]) /\ IsWhitespace(input[i + 1])
    /\ output.once = <<"a", " ", "a">>

\* The positions of the newlines of a text.
NewlinePositions(text) ==
    LET IsNewline(i) == text[i] = "\n"
    IN SelectSeq([i \in 1..Len(text) |-> i], IsNewline)

\* The number of lines of a text: one per newline, and one more for what
\* follows the last newline if anything does.
LineCount(text) ==
    LET nl == NewlinePositions(text)
        last == IF nl = <<>> THEN 0 ELSE nl[Len(nl)]
    IN Len(nl) + (IF last < Len(text) THEN 1 ELSE 0)

\* Line k (0-based) of a text: what stands between the k-th newline and the
\* next, "\r\n" counting as a newline.
LineAt(text, k) ==
    LET nl == NewlinePositions(text)
        from == IF k = 0 THEN 1 ELSE nl[k] + 1
        ends == k + 1 <= Len(nl)
        to == IF ends THEN nl[k + 1] - 1 ELSE Len(text)
    IN IF ends /\ to >= from /\ text[to] = "\r" THEN SubSeq(text, from, to - 1)
       ELSE SubSeq(text, from, to)

\* The same letter in either case.
SameLetter(x, y) ==
    \/ x = y
    \/ {x, y} \in {{"a", "A"}, {"b", "B"}}

\* The query occurs in the line at some offset, letter by letter in any case.
OccursIgnoringCase(query, line) ==
    \E offset \in 0..(Len(line) - Len(query)) :
        \A j \in 1..Len(query) : SameLetter(line[offset + j], query[j])

\* C14: the line search returns exactly the lines of the content that contain
\* the query as a case-insensitive substring, each with its 0-based line
\* index and its text as written, in increasing line order, none omitted and
\* none twice.
C14_SearchReturnsMatchingLines ==
    output.calls = 1 =>
        LET results == output.results
            n == LineCount(input.content)
        IN /\ \A j \in 1..Len(results) :
                 /\ results[j][1] \in 0..(n - 1)
                 /\ results[j][2] = LineAt(input.content, results[j][1])
                 /\ OccursIgnoringCase(input.query, results[j][2])
           /\ \A j \in 1..(Len(results) - 1) : results[j][1] < results[j + 1][1]
           /\ \A k \in 0..(n - 1) :
                 OccursIgnoringCase(input.query, LineAt(input.content, k)) =>
                     \E j \in 1..Len(results) : results[j][1] = k

\* A search that skipped the first line and matched a later line whose
\* letters are in the other case than the query's.
C14_Witness ==
    /\ output.calls = 1
    /\ input.query = <<"A", "b">>
    /\ LineCount(input.content) = 2
    /\ output.results = << <<1, <<"a", "B">> >> >>

\* C15: total_pages of an EPUB or TXT parse is max(1, floor(w / 500)), w the
\* number of words of the content: at least 1 always, 2 for 1000 words and 1
\* for 10 words.
C15_PageEstimate ==
    output.calls = 1 =>
        /\ output.total_pages >= 1
        /\ output.total_pages = (IF input.words < 500 THEN 1 ELSE input.words \div 500)
        /\ input.words = 1000 => output.total_pages = 2
        /\ input.words = 10 => output.total_pages = 1

\* An EPUB of 1000 words was parsed.
C15_Witness ==
    /\ output.calls = 1
    /\ input.file_type = "epub"
    /\ input.words = 1000
    /\ output.total_pages = 2

\* C8: the chapters of a parsed EPUB tile its content: the first starts at 0,
\* every chapter has start_position <= end_position, each chapter ends where
\* the next starts, and the last ends at the length of content.
C8_ChaptersTileContent ==
    Parsed =>
        LET ch == doc.chapters
            n == Len(ch)
        IN /\ n > 0 => ch[1].start_position = 0 /\ ch[n].end_position = Len(doc.content)
           /\ \A i \in 1..n : ch[i].start_position <= ch[i].end_position
           /\ \A i \in 1..(n - 1) : ch[i].end_position = ch[i + 1].start_position

\* A parse in which a spine entry was skipped and at least two chapters,
\* one of them with text, were produced.
C8_Witness ==
    /\ Parsed
    /\ Len(doc.chapters) >= 2
    /\ Len(doc.chapters) < Len(epub.spine)
    /\ \E i \in 1..Len(doc.chapters) :
          doc.chapters[i].end_position > doc.chapters[i].start_position + 2

\* C9: within one parsed EPUB all chapter ids are pairwise distinct.
C9_ChapterIdsDistinct ==
    Parsed =>
        \A i, j \in 1..Len(doc.chapters) :
            i # j => doc.chapters[i].id # doc.chapters[j].id

\* A parse of a spine that names the same resource at two positions and has
\* an entry that does not resolve.
C9_Witness ==
    /\ Parsed
    /\ Len(doc.chapters) >= 2
    /\ Len(doc.chapters) < Len(epub.spine)
    /\ \E i, j \in 1..Len(epub.spine) :
          /\ i # j
          /\ epub.spine[i] = epub.spine[j]
          /\ epub.resources[epub.spine[i]] # NoResource

C16_UnresolvedEntrySkipped ==
    Parsed =>
        LET resolved == ResolvedPositions(epub)
            ch == doc.chapters
        IN /\ doc.file_type = "epub"
           /\ Len(ch) = Len(resolved)
           /\ \A k \in 1..Len(ch) :
                 /\ ch[k].id = epub.spine[1] \o <<"_">> \o to_string(resolved[k] - 1)
                 /\ SubSeq(doc.content, ch[k].start_position + 1, ch[k].end_position)
                      = strip_html_tags(ChapterMarkup(epub, k)) \o <<"\n", "\n">>
           /\ Len(ch) = 0 => doc.content = <<>>
           /\ Len(ch) > 0 => ch[1].start_position = 0 /\ ch[Len(ch)].end_position = Len(doc.content)
           /\ \A k \in 1..(Len(ch) - 1) : ch[k].end_position = ch[k + 1].start_position

\* A parse of a three-entry spine whose middle entry does not resolve while
\* the entries around it resolve to different texts.
C16_Witness ==
    /\ Parsed
    /\ Len(epub.spine) = 3
    /\ epub.resources[epub.spine[2]] = NoResource
    /\ epub.resources[epub.spine[1]] = MarkupHello
    /\ epub.resources[epub.spine[3]] = MarkupIntro
    /\ Len(doc.chapters) = 2

\* C17: at every moment the rows of the chapter table under a document id
\* read as a miss (no rows) or as a complete chapter sequence of the document,
\* one chapter per resolvable spine entry; a get_chapters served by the
\* chapter table therefore returns the complete sequence, never a non-empty
\* proper part of it.
C17_PartialUpdateIsMiss ==
    /\ \A id \in KnownIds :
          \A rows \in select_chapters(db, id) :
              cached_chapters(rows).some =>
                  Len(cached_chapters(rows).chapters) = Len(ResolvedPositions(BookContainer))
    /\ \A h \in Handlers :
          (Done(h, "get_chapters") /\ req[h].rows_present = "hit") =>
              Len(req[h].result.value) = Len(ResolvedPositions(BookContainer))

\* C18: once a get_chapters for a library document has returned Ok, every
\* later get_chapters for that document, with no delete or re-open in
\* between and also after a restart, is answered without a call of a parser,
\* whatever the format of the document.
C18_NoReparseAfterFirstAnswer ==
    \A h \in Handlers :
        (Done(h, "get_chapters") /\ req[h].document_id \in returned) =>
            ParserCalls(req[h].trace) = <<>>

\* C19: the library never holds two records with the same file_path; when an
\* open_document has returned Ok, the one record of its path has the id of
\* the returned Document, which is the uuid issued last and the id of no
\* other record, and a saved current_position of 0.
C19_OneRecordPerPath ==
    /\ \A d1, d2 \in db.documents : d1.file_path = d2.file_path => d1 = d2
    /\ \A h \in Handlers :
          (Done(h, "open_document") /\ req[h].result.ok) =>
              LET r == req[h]
                  records == {d \in db.documents : d.file_path = r.file_path}
              IN /\ Cardinality(records) = 1
                 /\ \A d \in records :
                       /\ d.id = r.result.value.id
                       /\ d.current_position = 0
                 /\ r.result.value.id = next_uuid - 1
                 /\ \A d \in db.documents \ records : d.id < r.result.value.id

\* An open of book.EPUB has returned the Document with the second uuid, and
\* the library holds the record of that Document and no other.
C19_Witness ==
    \E h \in Handlers :
        /\ Done(h, "open_document")
        /\ req[h].result.ok
        /\ req[h].file_path = PathBook
        /\ req[h].result.value.id = 2
        /\ db.documents = {stored_document(req[h].result.value, PathBook)}

\* C20, for the runs in which no statement failed: when two get_chapters for
\* the same EPUB document, uncached when the first began, have both returned
\* Ok, both have returned the full chapter sequence, one chapter per
\* resolvable spine entry, and the chapter table holds under the document's
\* id one row per chapter_order 0 .. n-1 and no other row.
C20_ConcurrentGetChaptersComplete ==
    (\A h \in Handlers :
        /\ returned[h] # Idle
        /\ returned[h].document_id = 1
        /\ returned[h].result.ok
        /\ ~Occurs("delete_failed", returned[h].trace)
        /\ ~Occurs("insert_failed", returned[h].trace)) =>
        LET full == Len(ResolvedPositions(BookContainer))
            rows == {c \in db.chapters : c.document_id = 1}
        IN /\ \A h \in Handlers : Len(returned[h].result.value) = full
           /\ Cardinality(rows) = full
           /\ \A order \in 0..(full - 1) : \E c \in rows : c.chapter_order = order

\* C21: DocumentCache::set removes or changes an entry other than the one it
\* sets only when the map it found held 5 entries and not the id; a set of an
\* id the map held, or into a map of fewer than 5 entries, leaves every other
\* entry in the map with its Document.
C21_EvictOnlyBeyondCapacity ==
    DOMAIN input # {} =>
        LET before == input.before
            others == DOMAIN before \ {input.document_id}
            Kept(k) == k \in DOMAIN cache /\ cache[k] = before[k]
        IN /\ (\E k \in others : ~Kept(k)) =>
                 /\ Cardinality(DOMAIN before) = CacheCapacity
                 /\ input.document_id \notin DOMAIN before
           /\ (input.document_id \in DOMAIN before
                 \/ Cardinality(DOMAIN before) < CacheCapacity) =>
                 \A k \in others : Kept(k)

\* C22: a request that fails in the parse or in the lookup of the id leaves
\* the library, the chapter table and the DocumentCache as they were when it
\* began.  Every step of a request that changes one of them ends the
\* request's trace with the event of the write, a trace is only ever
\* extended, and a request that failed this way has no write in its trace
\* and changes nothing in its last step.
C22_FailedRequestChangesNothing ==
    [][\A h \in Handlers :
          (req'[h] # req[h] /\ req'[h].pc # "idle") =>
              LET r == req'[h]
                  n == Len(r.trace)
              IN /\ req[h].pc # "idle" =>
                       /\ n >= Len(req[h].trace)
                       /\ SubSeq(r.trace, 1, Len(req[h].trace)) = req[h].trace
                 /\ (db' # db \/ cache' # cache) => (n > 0 /\ IsWriteEvent(r.trace[n]))
                 /\ FailedInParseOrLookup(r) =>
                       /\ \A i \in 1..n : ~IsWriteEvent(r.trace[i])
                       /\ db' = db
                       /\ cache' = cache]_vars

\* A get_chapters has failed on a file that could not be read while the
\* library, the chapter table and the DocumentCache all hold something.
C22_Witness ==
    \E h \in Handlers :
        /\ Done(h, "get_chapters")
        /\ FailedInParseOrLookup(req[h])
        /\ req[h].result.error = "Failed to open"
        /\ db.documents # {}
        /\ db.chapters # {}
        /\ cache # <<>>

\* C23: the chapter table is independent per document.  A DELETE or INSERT
\* of save_chapters for a document leaves the rows of every other document
\* as they were, and whether it succeeds does not depend on those rows: an
\* INSERT that fails is never one whose chapter id is held by a row of
\* another document.
C23_ChapterCachePerDocument ==
    [][\A h \in Handlers :
          (req[h].pc \in {"chapters_delete", "chapters_insert"} /\ req'[h].pc # "idle") =>
              LET id == req[h].document_id
                  trace == req'[h].trace
              IN /\ {c \in db'.chapters : c.document_id # id}
                      = {c \in db.chapters : c.document_id # id}
                 /\ (req[h].pc = "chapters_insert" /\ trace[Len(trace)] = "insert_failed") =>
                       \A c \in db.chapters :
                           c.id = req[h].document.chapters[req[h].order + 1].id
                               => c.document_id = id]_vars

====
